---- MODULE Spec2Model ----
(***************************************************************************)
(* Model of the 1PUX -> CSV converter (src/main.py).                       *)
(*                                                                         *)
(* Python values are tagged records: None, str, int, dict (a function from *)
(* key strings to values) and list (a sequence).  An operator that models  *)
(* a Python function returns such a value, or Raised when the Python code  *)
(* raises an exception at that point.                                      *)
(*                                                                         *)
(* The four CJK literals of build_notes cannot be written in a TLA+ string *)
(* and are transliterated (TagsLabel, OtherFieldsHeader, ExtraInfoHeader,  *)
(* OtherUrlsHeader, HistoryLabel, HistoryUnit); nothing else is renamed.   *)
(***************************************************************************)
EXTENDS Integers, Sequences, FiniteSets, TLC

VARIABLES
    \* ---- one run of main() ----
    one_pux,           \* the file at one_pux_path: what it is, and the document in it
    include_archived,  \* args.include_archived
    pc,                \* position of main() / convert_1pux_to_csv()
    data,              \* the parsed export.data (Pending before it is read)
    ai, vi, ii,        \* how many accounts / vaults / items the three for-loops have taken
    csv_rows,          \* the list csv_rows
    exc,               \* the exception on its way to main()'s except clause
    out_file,          \* the lines of the file at output_path
    stdout, stderr,    \* messages printed
    exit_code,         \* what main() returned (Pending while it runs)
    \* ---- one call of convert_item_to_csv_row ----
    item, row,
    \* ---- one call of format_field_value and a second on its result ----
    field_value, formatted, reformatted

vars == <<one_pux, include_archived, pc, data, ai, vi, ii, csv_rows, exc,
          out_file, stdout, stderr, exit_code, item, row, field_value, formatted, reformatted>>

runVars == <<one_pux, include_archived, pc, data, ai, vi, ii, csv_rows, exc,
             out_file, stdout, stderr, exit_code>>

itemVars == <<item, row>>

formatVars == <<field_value, formatted, reformatted>>

-----------------------------------------------------------------------------
(* Python values *)

PyNone == [t |-> "none"]

Str(s) == [t |-> "str", s |-> s]

Num(n) == [t |-> "int", n |-> n]

Dict(d) == [t |-> "dict", d |-> d]

List(l) == [t |-> "list", l |-> l]

EmptyDict == Dict(<<>>)

EmptyList == List(<<>>)

\* the outcome of an expression that raises
Raised == [t |-> "raise"]

\* "not yet computed" in the per-item and per-value variables
Pending == [t |-> "pending"]

IsStr(v) == v.t = "str"

IsDict(v) == v.t = "dict"

IsList(v) == v.t = "list"

\* bool(v)
Truthy(v) ==
    CASE v.t = "none" -> FALSE
      [] v.t = "str"  -> v.s # ""
      [] v.t = "int"  -> v.n # 0
      [] v.t = "dict" -> DOMAIN v.d # {}
      [] v.t = "list" -> Len(v.l) > 0
      [] OTHER        -> FALSE

\* v == w for the comparisons the code makes (against a str literal)
PyEqStr(v, s) == IsStr(v) /\ v.s = s

\* v.get(k, default): AttributeError unless v is a dict
Get(v, k, default) ==
    IF IsDict(v)
    THEN IF k \in DOMAIN v.d THEN v.d[k] ELSE default
    ELSE Raised

\* k in v, for a dict v
HasKey(v, k) == k \in DOMAIN v.d

\* s.startswith(p)
StartsWith(s, p) == Len(s) >= Len(p) /\ SubSeq(s, 1, Len(p)) = p

\* s.endswith(p)
EndsWith(s, p) == Len(s) >= Len(p) /\ SubSeq(s, Len(s) - Len(p) + 1, Len(s)) = p

\* p occurs in s
Contains(s, p) ==
    \E i \in 1..(Len(s) - Len(p) + 1) : SubSeq(s, i, i + Len(p) - 1) = p

Whitespace == {" ", "\n", "\t"}

RECURSIVE LStrip(_)
LStrip(s) ==
    IF s # "" /\ SubSeq(s, 1, 1) \in Whitespace
    THEN LStrip(SubSeq(s, 2, Len(s)))
    ELSE s

RECURSIVE RStrip(_)
RStrip(s) ==
    IF s # "" /\ SubSeq(s, Len(s), Len(s)) \in Whitespace
    THEN RStrip(SubSeq(s, 1, Len(s) - 1))
    ELSE s

\* s.strip()
Strip(s) == RStrip(LStrip(s))

\* sep.join(parts) for a sequence of TLA+ strings, from the i-th part on
RECURSIVE JoinFrom(_, _, _)
JoinFrom(sep, parts, i) ==
    IF i > Len(parts) THEN ""
    ELSE IF i = Len(parts) THEN parts[i]
    ELSE parts[i] \o sep \o JoinFrom(sep, parts, i + 1)

JoinStrings(sep, parts) == JoinFrom(sep, parts, 1)

\* the keys of a dict as a list of str; the model's dicts carry no insertion
\* order, so some fixed order is used
RECURSIVE KeySeq(_)
KeySeq(keys) ==
    IF keys = {} THEN <<>>
    ELSE LET k == CHOOSE x \in keys : TRUE
         IN  <<Str(k)>> \o KeySeq(keys \ {k})

\* repr(v)
RECURSIVE PyRepr(_)
PyRepr(v) ==
    CASE v.t = "str"  -> "'" \o v.s \o "'"
      [] v.t = "int"  -> ToString(v.n)
      [] v.t = "none" -> "None"
      [] v.t = "list" ->
            "[" \o JoinStrings(", ", [i \in 1..Len(v.l) |-> PyRepr(v.l[i])]) \o "]"
      [] v.t = "dict" ->
            "{" \o JoinStrings(", ", [i \in 1..Len(KeySeq(DOMAIN v.d)) |->
                        PyRepr(KeySeq(DOMAIN v.d)[i]) \o ": "
                        \o PyRepr(v.d[KeySeq(DOMAIN v.d)[i].s])]) \o "}"

\* str(v) and the f-string conversion {v}
PyStr(v) == IF v.t = "str" THEN v.s ELSE PyRepr(v)

\* sep.join(parts) for a sequence of Python values: TypeError unless all are str
PyJoin(sep, parts) ==
    IF \A i \in 1..Len(parts) : IsStr(parts[i])
    THEN Str(JoinStrings(sep, [i \in 1..Len(parts) |-> parts[i].s]))
    ELSE Raised

\* "\n".join(f"  - {f}" for f in lines)
BulletLines(lines) ==
    JoinStrings("\n", [i \in 1..Len(lines) |-> "  - " \o PyStr(lines[i])])

\* [p for p in parts if p]
FilterTruthy(parts) == SelectSeq(parts, Truthy)

-----------------------------------------------------------------------------
(* format_field_value, src/main.py 85-151 *)

\* lines 118-137: the address branch, for addr a dict
FormatAddress(addr) ==
    LET street   == Get(addr, "street", PyNone)
        city     == Get(addr, "city", Str(""))
        state    == Get(addr, "state", Str(""))
        zip_code == Get(addr, "zip", Str(""))
        country  == Get(addr, "country", Str(""))
        parts0   == IF Truthy(street) THEN <<street>> ELSE <<>>
        city_parts == FilterTruthy(<<city, state, zip_code>>)
        cityJoined == PyJoin(", ", city_parts)
        parts1   == IF Len(city_parts) > 0 THEN Append(parts0, cityJoined) ELSE parts0
        parts    == IF Truthy(country) THEN Append(parts1, country) ELSE parts1
    IN  IF Len(city_parts) > 0 /\ cityJoined = Raised THEN Raised
        ELSE IF Len(parts) > 0 THEN PyJoin(", ", parts)
        ELSE PyNone

IncidentalKeys == <<"value", "text", "name", "label">>

\* lines 141-148: the loop over the incidental keys, from the i-th on
RECURSIVE FormatIncidental(_, _)
FormatIncidental(fv, i) ==
    IF i > Len(IncidentalKeys) THEN PyNone
    ELSE IF HasKey(fv, IncidentalKeys[i]) /\ Truthy(fv.d[IncidentalKeys[i]])
         THEN Str(PyStr(fv.d[IncidentalKeys[i]]))
         ELSE FormatIncidental(fv, i + 1)

format_field_value(fv) ==
    IF ~Truthy(fv) THEN PyNone
    ELSE IF IsStr(fv) THEN fv
    ELSE IF IsDict(fv) THEN
        IF HasKey(fv, "concealed") THEN fv.d["concealed"]
        ELSE IF HasKey(fv, "string") THEN fv.d["string"]
        ELSE IF HasKey(fv, "ssoLogin") THEN
            IF IsDict(fv.d["ssoLogin"])
            THEN LET provider == Get(fv.d["ssoLogin"], "provider", Str(""))
                 IN  IF Truthy(provider) THEN provider ELSE PyNone
            ELSE PyNone
        ELSE IF HasKey(fv, "menu") THEN
            IF Truthy(fv.d["menu"]) THEN fv.d["menu"] ELSE PyNone
        ELSE IF HasKey(fv, "address") /\ IsDict(fv.d["address"])
             THEN FormatAddress(fv.d["address"])
        ELSE FormatIncidental(fv, 1)
    ELSE Str(PyStr(fv))

-----------------------------------------------------------------------------
(* iteration and len() *)

\* what "for x in v" yields: TypeError for None and int
Iter(v) ==
    CASE v.t = "list" -> v
      [] v.t = "str"  -> List([i \in 1..Len(v.s) |-> Str(SubSeq(v.s, i, i))])
      [] v.t = "dict" -> List(KeySeq(DOMAIN v.d))
      [] OTHER        -> Raised

\* len(v): -1 stands for the TypeError of None and int
PyLen(v) ==
    CASE v.t = "list" -> Len(v.l)
      [] v.t = "str"  -> Len(v.s)
      [] v.t = "dict" -> Cardinality(DOMAIN v.d)
      [] OTHER        -> -1

\* v or default
OrElse(v, default) == IF Truthy(v) THEN v ELSE default

-----------------------------------------------------------------------------
(* extract_username / extract_password, src/main.py 37-50 *)

\* the loop "for field in login_fields: if field.get('designation') == d: return ..."
RECURSIVE ScanDesignation(_, _, _)
ScanDesignation(fields, i, d) ==
    IF i > Len(fields) THEN PyNone
    ELSE LET designation == Get(fields[i], "designation", PyNone)
         IN  IF designation = Raised THEN Raised
             ELSE IF PyEqStr(designation, d) THEN Get(fields[i], "value", Str(""))
             ELSE ScanDesignation(fields, i + 1, d)

extract_username(login_fields) ==
    IF Iter(login_fields) = Raised THEN Raised
    ELSE ScanDesignation(Iter(login_fields).l, 1, "username")

extract_password(login_fields) ==
    IF Iter(login_fields) = Raised THEN Raised
    ELSE ScanDesignation(Iter(login_fields).l, 1, "password")

-----------------------------------------------------------------------------
(* extract_otp_auth, src/main.py 53-67 *)

TotpPrefix == "TOTP_"

\* the inner loop has run off its end without returning
Continue == [t |-> "continue"]

\* lines 60-66: what one TOTP_ field does: a returned value, or Continue
OtpOfField(field) ==
    LET value == Get(field, "value", EmptyDict)
    IN  IF IsDict(value)
        THEN LET totp == Get(value, "totp", Str(""))
             IN  IF Truthy(totp) THEN totp ELSE Continue
        ELSE IF IsStr(value) THEN value
        ELSE Continue

\* lines 57-66: the loop over one section's fields, from the j-th on
RECURSIVE OtpScanFields(_, _)
OtpScanFields(fields, j) ==
    IF j > Len(fields) THEN Continue
    ELSE LET field_id == Get(fields[j], "id", Str(""))
         IN  IF field_id = Raised \/ ~IsStr(field_id) THEN Raised
             ELSE IF StartsWith(field_id.s, TotpPrefix) /\ OtpOfField(fields[j]) # Continue
                  THEN OtpOfField(fields[j])
             ELSE OtpScanFields(fields, j + 1)

\* lines 55-67: the loop over the sections, from the i-th on
RECURSIVE OtpScanSections(_, _)
OtpScanSections(sections, i) ==
    IF i > Len(sections) THEN PyNone
    ELSE LET fields == Get(sections[i], "fields", EmptyList)
         IN  IF fields = Raised \/ Iter(fields) = Raised THEN Raised
             ELSE LET r == OtpScanFields(Iter(fields).l, 1)
                  IN  IF r = Continue THEN OtpScanSections(sections, i + 1) ELSE r

extract_otp_auth(sections) ==
    IF Iter(sections) = Raised THEN Raised
    ELSE OtpScanSections(Iter(sections).l, 1)

-----------------------------------------------------------------------------
(* extract_url, src/main.py 70-82 *)

extract_url(overview) ==
    LET url  == Get(overview, "url", PyNone)
        urls == Get(overview, "urls", EmptyList)
    IN  IF url = Raised THEN Raised
        ELSE IF Truthy(url) THEN url
        ELSE IF Truthy(urls)
             THEN IF IsList(urls) THEN Get(urls.l[1], "url", Str("")) ELSE Raised
        ELSE PyNone

-----------------------------------------------------------------------------
(* build_notes, src/main.py 154-235 *)

\* the literals of lines 167, 184, 213, 228, 233 and 235
TagsLabel == "Tags: "

OtherFieldsHeader == "OtherFields:\n"

ExtraInfoHeader == "ExtraInfo:\n"

OtherUrlsHeader == "OtherUrls:\n"

HistoryLabel == "PasswordHistory: "

HistoryUnit == " entries"

Delimiter == "\n---\n"

\* A block is Str(text) when the code appends text to notes_parts, PyNone when it
\* appends nothing, Raised when it raises.

\* lines 159-161
NotesPlainBlock(details) ==
    LET notes_plain == Get(details, "notesPlain", Str(""))
    IN  IF notes_plain = Raised THEN Raised
        ELSE IF ~Truthy(notes_plain) THEN PyNone
        ELSE IF IsStr(notes_plain) THEN Str(Strip(notes_plain.s))
        ELSE Raised

\* lines 166-167, for tags already iterated
TagsLine(joined) ==
    IF joined = Raised THEN Raised ELSE Str(TagsLabel \o joined.s)

\* lines 164-167
TagsBlock(overview) ==
    LET tags == Get(overview, "tags", EmptyList)
    IN  IF tags = Raised THEN Raised
        ELSE IF ~Truthy(tags) THEN PyNone
        ELSE IF Iter(tags) = Raised THEN Raised
        ELSE TagsLine(PyJoin(", ", Iter(tags).l))

\* two lists of lines, one after the other; Raised when either raised
Concat(a, b) ==
    IF a = Raised \/ b = Raised THEN Raised ELSE List(a.l \o b.l)

\* lines 183-184, 212-213, 227-228: the block of a header and its bullet lines
BulletBlock(header, lines) ==
    IF lines = Raised THEN Raised
    ELSE IF Len(lines.l) = 0 THEN PyNone
    ELSE Str(header \o BulletLines(lines.l))

\* lines 173-181: what one login field appends to other_fields
OtherFieldLine(designation, field_name, field_value_) ==
    IF designation = Raised THEN Raised
    ELSE IF PyEqStr(designation, "username") \/ PyEqStr(designation, "password")
         THEN EmptyList
    ELSE IF ~Truthy(field_value_) THEN EmptyList
    ELSE IF Truthy(field_name)
         THEN List(<<Str(PyStr(field_name) \o ": " \o PyStr(field_value_))>>)
    ELSE List(<<field_value_>>)

\* lines 172-181: the loop over the login fields, from the i-th on
RECURSIVE OtherFieldLines(_, _)
OtherFieldLines(fields, i) ==
    IF i > Len(fields) THEN EmptyList
    ELSE Concat(OtherFieldLine(Get(fields[i], "designation", Str("")),
                               Get(fields[i], "name", Str("")),
                               Get(fields[i], "value", Str(""))),
                OtherFieldLines(fields, i + 1))

\* lines 170-184
OtherFieldsBlock(details) ==
    LET login_fields == Get(details, "loginFields", EmptyList)
    IN  IF login_fields = Raised \/ Iter(login_fields) = Raised THEN Raised
        ELSE BulletBlock(OtherFieldsHeader, OtherFieldLines(Iter(login_fields).l, 1))

\* lines 204-210: the line of a field that is no OTP field
FieldLine(section_title, field_title, formatted_value) ==
    IF formatted_value = Raised THEN Raised
    ELSE IF ~Truthy(formatted_value) THEN EmptyList
    ELSE IF Truthy(section_title) /\ Truthy(field_title)
         THEN List(<<Str(PyStr(section_title) \o " - " \o PyStr(field_title)
                         \o ": " \o PyStr(formatted_value))>>)
    ELSE IF Truthy(field_title)
         THEN List(<<Str(PyStr(field_title) \o ": " \o PyStr(formatted_value))>>)
    ELSE List(<<formatted_value>>)

\* lines 193-210 without the test of lines 195-196: OTP fields are listed too
SectionFieldLine_NoSkip(section_title, field) ==
    IF ~IsStr(Get(field, "id", Str(""))) THEN Raised
    ELSE FieldLine(section_title,
                   Get(field, "title", Str("")),
                   format_field_value(Get(field, "value", Str(""))))

\* lines 193-210: what one field of a section appends to section_fields
SectionFieldLine(section_title, field) ==
    LET field_id == Get(field, "id", Str(""))
    IN  IF field_id = Raised \/ ~IsStr(field_id) THEN Raised
        ELSE IF StartsWith(field_id.s, TotpPrefix) THEN EmptyList
        ELSE FieldLine(section_title,
                       Get(field, "title", Str("")),
                       format_field_value(Get(field, "value", Str(""))))

\* lines 192-210: the loop over one section's fields, from the j-th on
RECURSIVE SectionFieldLines(_, _, _)
SectionFieldLines(section_title, fields, j) ==
    IF j > Len(fields) THEN EmptyList
    ELSE Concat(SectionFieldLine(section_title, fields[j]),
                SectionFieldLines(section_title, fields, j + 1))

\* lines 190-192: one section
SectionLines(section_title, fields) ==
    IF section_title = Raised \/ fields = Raised THEN Raised
    ELSE SectionFieldLines(section_title, fields.l, 1)

\* lines 189-210: the loop over the sections, from the i-th on
RECURSIVE SectionsLines(_, _)
SectionsLines(sections, i) ==
    IF i > Len(sections) THEN EmptyList
    ELSE Concat(SectionLines(Get(sections[i], "title", Str("")),
                             Iter(Get(sections[i], "fields", EmptyList))),
                SectionsLines(sections, i + 1))

\* lines 187-213
SectionsBlock(details) ==
    LET sections == Get(details, "sections", EmptyList)
    IN  IF sections = Raised \/ Iter(sections) = Raised THEN Raised
        ELSE BulletBlock(ExtraInfoHeader, SectionsLines(Iter(sections).l, 1))

\* lines 220-226: what one entry of urls[1:] appends to other_urls
OtherUrlLine(url_str, label) ==
    IF url_str = Raised THEN Raised
    ELSE IF ~Truthy(url_str) THEN EmptyList
    ELSE IF Truthy(label) THEN List(<<Str(PyStr(label) \o ": " \o PyStr(url_str))>>)
    ELSE List(<<url_str>>)

\* lines 219-226: the loop over urls[1:], from the i-th entry of urls on
RECURSIVE OtherUrlLines(_, _)
OtherUrlLines(urls, i) ==
    IF i > Len(urls) THEN EmptyList
    ELSE Concat(OtherUrlLine(Get(urls[i], "url", Str("")), Get(urls[i], "label", Str(""))),
                OtherUrlLines(urls, i + 1))

\* lines 216-228
OtherUrlsBlock(overview) ==
    LET urls == Get(overview, "urls", EmptyList)
    IN  IF urls = Raised \/ PyLen(urls) < 0 THEN Raised
        ELSE IF PyLen(urls) <= 1 THEN PyNone
        ELSE IF ~IsList(urls) THEN Raised
        ELSE BulletBlock(OtherUrlsHeader, OtherUrlLines(urls.l, 2))

\* lines 231-233
HistoryBlock(details) ==
    LET password_history == Get(details, "passwordHistory", EmptyList)
    IN  IF password_history = Raised THEN Raised
        ELSE IF ~Truthy(password_history) THEN PyNone
        ELSE IF PyLen(password_history) < 0 THEN Raised
        ELSE Str(HistoryLabel \o ToString(PyLen(password_history)) \o HistoryUnit)

\* notes_parts, in the order the code appends: the six blocks of an item
NotesBlocks(details, overview) ==
    <<NotesPlainBlock(details), TagsBlock(overview), OtherFieldsBlock(details),
      SectionsBlock(details), OtherUrlsBlock(overview), HistoryBlock(details)>>

\* the blocks that were appended, as strings
Appended(blocks) ==
    [i \in 1..Len(SelectSeq(blocks, IsStr)) |-> SelectSeq(blocks, IsStr)[i].s]

\* line 235
JoinNotes(notes_parts) == JoinStrings(Delimiter, notes_parts)

\* line 235, or the exception of an earlier line
NotesOf(blocks) ==
    IF \E i \in 1..Len(blocks) : blocks[i] = Raised THEN Raised
    ELSE Str(JoinNotes(Appended(blocks)))

build_notes(details, overview) == NotesOf(NotesBlocks(details, overview))

-----------------------------------------------------------------------------
(* convert_item_to_csv_row, src/main.py 238-263 *)

\* lines 256-263, or the exception of an earlier line
MakeRow(title, url, username, password, otp_auth, notes) ==
    IF \/ title = Raised
       \/ url = Raised
       \/ username = Raised
       \/ password = Raised
       \/ otp_auth = Raised
       \/ notes = Raised
    THEN Raised
    ELSE [t |-> "row",
          Title |-> title,
          URL |-> OrElse(url, Str("")),
          Username |-> OrElse(username, Str("")),
          Password |-> OrElse(password, Str("")),
          Notes |-> notes,
          OTPAuth |-> OrElse(otp_auth, Str(""))]

\* lines 244-254, for overview and details already fetched
ConvertParts(overview, details) ==
    MakeRow(Get(overview, "title", Str("")),
            extract_url(overview),
            extract_username(Get(details, "loginFields", EmptyList)),
            extract_password(Get(details, "loginFields", EmptyList)),
            extract_otp_auth(Get(details, "sections", EmptyList)),
            build_notes(details, overview))

convert_item_to_csv_row(it) ==
    ConvertParts(Get(it, "overview", EmptyDict), Get(it, "details", EmptyDict))

-----------------------------------------------------------------------------
(* Inputs of format_field_value: the shapes of a section field's value *)

\* at most this many keys in one dict value
MaxKeys == 2

ShapeKeys == <<"concealed", "string", "ssoLogin", "menu", "address">>

AddressKeys == {"street", "city", "state", "zip", "country"}

AddressPart(k) ==
    CASE k = "street"  -> Str("1 Main St")
      [] k = "city"    -> Str("Springfield")
      [] k = "state"   -> Str("IL")
      [] k = "zip"     -> Str("62704")
      [] k = "country" -> Str("USA")

\* address objects: every subset of the five sub-fields, plus empty and non-str members
Addresses ==
    {Dict([k \in K |-> AddressPart(k)]) : K \in SUBSET AddressKeys}
    \cup {Dict([street |-> Str(""), city |-> Str(""), country |-> Str("USA")]),
          Dict([city |-> Str("Springfield"), zip |-> Num(62704)])}

\* the values one key of a dict value may hold
KeyValues(k) ==
    CASE k \in {"concealed", "string"} -> {Str(""), Str("s3cret"), Num(5)}
      [] k = "ssoLogin" -> {Dict([provider |-> Str("google")]), Dict([provider |-> Str("")]),
                            EmptyDict, Str("sso")}
      [] k = "menu"     -> {Str("opt"), Str(""), Dict([concealed |-> Str("x")])}
      [] k = "address"  -> Addresses \cup {Str("addr"), PyNone}
      [] k = "totp"     -> {Str("JBSWY3DPEHPK3PXP"), Str("")}
      [] OTHER          -> {Str(""), Str(k \o "-val"), Num(3)}

DictKeys == {ShapeKeys[i] : i \in 1..Len(ShapeKeys)}
            \cup {IncidentalKeys[i] : i \in 1..Len(IncidentalKeys)}
            \cup {"totp"}

\* every dict over exactly the keys K
RECURSIVE DictsOver(_)
DictsOver(K) ==
    IF K = {} THEN {<<>>}
    ELSE LET k == CHOOSE x \in K : TRUE
         IN  {(k :> v) @@ d : v \in KeyValues(k), d \in DictsOver(K \ {k})}

Scalars == {PyNone, Str(""), Str("plain"), Num(0), Num(42), EmptyList, List(<<Str("a")>>)}

FieldValues ==
    Scalars \cup
    {Dict(d) : d \in UNION {DictsOver(K) : K \in {S \in SUBSET DictKeys : Cardinality(S) <= MaxKeys}}}

-----------------------------------------------------------------------------
(* Idle values of the variables a specification does not use *)

IdleRun ==
    /\ one_pux = Pending
    /\ include_archived = FALSE
    /\ pc = "idle"
    /\ data = Pending
    /\ ai = 0 /\ vi = 0 /\ ii = 0
    /\ csv_rows = <<>>
    /\ exc = "none"
    /\ out_file = <<>>
    /\ stdout = <<>>
    /\ stderr = <<>>
    /\ exit_code = Pending

IdleItem == item = Pending /\ row = Pending

IdleFormat == field_value = Pending /\ formatted = Pending /\ reformatted = Pending

-----------------------------------------------------------------------------
(* SpecFormat: one call of format_field_value, then a second on its result *)

InitFormat ==
    /\ IdleRun /\ IdleItem
    /\ field_value \in FieldValues
    /\ formatted = Pending
    /\ reformatted = Pending

Format ==
    /\ field_value # Pending
    /\ formatted = Pending
    /\ formatted' = format_field_value(field_value)
    /\ UNCHANGED <<field_value, reformatted, runVars, itemVars>>

Reformat ==
    /\ formatted \notin {Pending, Raised}
    /\ reformatted = Pending
    /\ reformatted' = format_field_value(formatted)
    /\ UNCHANGED <<field_value, formatted, runVars, itemVars>>

NextFormat == Format \/ Reformat

SpecFormat == InitFormat /\ [][NextFormat]_vars

-----------------------------------------------------------------------------
(* Claims about format_field_value (SpecFormat) *)

\* C6: format_field_value is total and idempotent: every call returns a string
\* or None without raising, and a second call on the result returns the result.
C6_TotalAndIdempotent ==
    /\ formatted # Pending => formatted.t \in {"str", "none"}
    /\ reformatted # Pending => reformatted = formatted

\* the first of the five shape keys that fv carries, 0 when it carries none
FirstShapeKey(fv) ==
    IF \E i \in 1..Len(ShapeKeys) : HasKey(fv, ShapeKeys[i])
    THEN CHOOSE i \in 1..Len(ShapeKeys) :
            /\ HasKey(fv, ShapeKeys[i])
            /\ \A j \in 1..(i - 1) : ~HasKey(fv, ShapeKeys[j])
    ELSE 0

\* fv with every key but k dropped
OnlyKey(fv, k) == Dict([x \in {k} |-> fv.d[x]])

\* C9: on a dict the first shape key present decides the result alone: dropping
\* every other key (later shape keys, incidental keys) does not change it.
C9_FirstShapeKeyWins ==
    (formatted # Pending /\ IsDict(field_value) /\ FirstShapeKey(field_value) > 0)
    => formatted = format_field_value(
                      OnlyKey(field_value, ShapeKeys[FirstShapeKey(field_value)]))

-----------------------------------------------------------------------------
(* Inputs of convert_item_to_csv_row: items *)

\* at most this many section fields in one item, over all its sections
MaxFields == 2

\* at most this many entries in overview.urls
MaxUrls == 2

\* every sequence over S of length at most n
SeqsUpTo(S, n) == UNION {[1..k -> S] : k \in 0..n}

\* a key that may be missing: no entry, or one of the values
Optional(k, values) == {<<>>} \cup {(k :> v) : v \in values}

SectionFieldPool ==
    {Dict([id |-> Str("TOTP_1"), title |-> Str("otp"), value |-> Dict([totp |-> Str("SEED1")])]),
     Dict([id |-> Str("TOTP_2"), value |-> Str("SEED2")]),
     Dict([id |-> Str("TOTP_3"), value |-> Str("")]),
     Dict([id |-> Str("TOTP_4"), value |-> Dict([totp |-> Str("")])]),
     Dict([id |-> Str("TOTP_5"), title |-> Str("otp"), value |-> Dict([concealed |-> Str("hidden")])]),
     Dict([id |-> Str("pin"), title |-> Str("PIN"), value |-> Dict([concealed |-> Str("1234")])]),
     Dict([title |-> Str("memo"), value |-> Str("x")]),
     Dict([id |-> PyNone, value |-> Str("y")])}

\* fields cut into sections: the first `cut` fields form a titled section, the rest
\* an untitled one (cut = 0: one untitled section; no fields: no section)
SectionsOf(fields, cut) ==
    IF Len(fields) = 0 THEN EmptyList
    ELSE IF cut = 0 THEN List(<<Dict([fields |-> List(fields)])>>)
    ELSE List(<<Dict([title |-> Str("Sec"), fields |-> List(SubSeq(fields, 1, cut))]),
                Dict([fields |-> List(SubSeq(fields, cut + 1, Len(fields)))])>>)

SectionLists ==
    UNION {{SectionsOf(fs, cut) : cut \in 0..Len(fs)} : fs \in SeqsUpTo(SectionFieldPool, MaxFields)}

UrlPool ==
    {Dict([url |-> Str("https://a.example")]),
     Dict([url |-> Str("https://b.example"), label |-> Str("Backup")]),
     Dict([url |-> Str("")])}

UrlLists == {List(us) : us \in SeqsUpTo(UrlPool, MaxUrls)}

LoginFieldLists ==
    {EmptyList,
     List(<<Dict([designation |-> Str("username"), name |-> Str("username"), value |-> Str("alice")]),
            Dict([designation |-> Str("password"), name |-> Str("password"), value |-> Str("p@ss")])>>),
     List(<<Dict([designation |-> Str("username"), value |-> Str("")]),
            Dict([designation |-> Str(""), name |-> Str("pin"), value |-> Str("0000")]),
            Dict([name |-> Str(""), value |-> Num(5)])>>)}

MakeItem(overview, details) ==
    Dict([overview |-> Dict(("title" :> Str("Example")) @@ overview), details |-> Dict(details)])

\* items that vary in their sections only
SectionItems == {MakeItem(<<>>, ("sections" :> secs)) : secs \in SectionLists}

\* items that vary in overview.url and overview.urls only
UrlItems ==
    {MakeItem(u @@ ("urls" :> us), <<>>) :
        u \in Optional("url", {Str(""), Str("https://a.example"), Str("https://main.example")}),
        us \in UrlLists}

\* items that vary in the trigger of each of the six blocks of the notes
NotesItems ==
    {MakeItem(tg @@ ("urls" :> us), np @@ ("loginFields" :> lf) @@ ("sections" :> secs) @@ ph) :
        np \in Optional("notesPlain", {Str(""), Str("  "), Str(" hello\n")}),
        tg \in Optional("tags", {EmptyList, List(<<Str("work"), Str("bank")>>)}),
        lf \in LoginFieldLists,
        secs \in {EmptyList, SectionsOf(<<Dict([id |-> Str("pin"), value |-> Str("1234")])>>, 0)},
        us \in {EmptyList, List(<<Dict([url |-> Str("https://a.example")]),
                                 Dict([url |-> Str("https://b.example"), label |-> Str("Backup")])>>)},
        ph \in Optional("passwordHistory", {EmptyList, List(<<Dict([value |-> Str("old")])>>)})}

Items == SectionItems \cup UrlItems \cup NotesItems

-----------------------------------------------------------------------------
(* SpecItem: one call of convert_item_to_csv_row *)

InitItem ==
    /\ IdleRun /\ IdleFormat
    /\ item \in Items
    /\ row = Pending

ConvertItem ==
    /\ item # Pending
    /\ row = Pending
    /\ row' = convert_item_to_csv_row(item)
    /\ UNCHANGED <<item, runVars, formatVars>>

NextItem == ConvertItem

SpecItem == InitItem /\ [][NextItem]_vars

-----------------------------------------------------------------------------
(* Inputs of a run: what one_pux_path holds *)

\* at most this many items in one document, over all its accounts and vaults
MaxItems == 2

RunItemPool ==
    {Dict([overview |-> Dict([title |-> Str("Example"), url |-> Str("https://example.com")]),
           details |-> Dict([loginFields |-> List(<<
               Dict([designation |-> Str("username"), value |-> Str("alice")]),
               Dict([designation |-> Str("password"), value |-> Str("p@ss")])>>)]),
           state |-> Str("active")]),
     Dict([overview |-> Dict([title |-> Str("Old")]),
           state |-> Str("archived")]),
     Dict([overview |-> Dict([title |-> Str("Otp")]),
           details |-> Dict([sections |-> List(<<Dict([fields |-> List(<<
               Dict([id |-> Str("TOTP_1"),
                     value |-> Dict([totp |-> Str("JBSWY3DPEHPK3PXP")])])>>)])>>)])]),
     Dict([overview |-> PyNone,
           state |-> Str("active")]),
     Dict([overview |-> Dict([title |-> Str("BadOld")]),
           details |-> Dict([sections |-> List(<<Dict([fields |-> List(<<
               Dict([id |-> PyNone, value |-> Str("y")])>>)])>>)]),
           state |-> Str("archived")])}

\* where the next item goes: the same vault, a new vault, a new account
Boundaries == {"item", "vault", "account"}

\* items i..Len(items) grouped into accounts of vaults of items; cuts[i] is the
\* boundary between item i and item i+1
RECURSIVE Grouped(_, _, _)
Grouped(items, cuts, i) ==
    IF i > Len(items) THEN <<>>
    ELSE IF i = Len(items) THEN << << <<items[i]>> >> >>
    ELSE LET rest == Grouped(items, cuts, i + 1)
         IN  CASE cuts[i] = "account" -> << << <<items[i]>> >> >> \o rest
               [] cuts[i] = "vault"   -> << << <<items[i]>> >> \o rest[1] >> \o Tail(rest)
               [] cuts[i] = "item"    ->
                    << << <<items[i]>> \o rest[1][1] >> \o Tail(rest[1]) >> \o Tail(rest)

VaultOf(items) == Dict([items |-> List(items)])

\* every account starts with a vault that has no "items" key
AccountOf(vaults) ==
    Dict([vaults |-> List(<<EmptyDict>> \o [v \in 1..Len(vaults) |-> VaultOf(vaults[v])])])

\* the document starts with an account that has no "vaults" key
DocumentOf(groups) ==
    Dict([accounts |-> List(<<EmptyDict>> \o [a \in 1..Len(groups) |-> AccountOf(groups[a])])])

\* the document with no "accounts" key, and the documents of up to MaxItems items
Documents ==
    {EmptyDict} \cup
    UNION {{DocumentOf(Grouped(its, cuts, 1)) : cuts \in [1..(Len(its) - 1) -> Boundaries]} :
           its \in SeqsUpTo(RunItemPool, MaxItems)}

FailureKinds == {"missing", "not_a_zip", "no_export_data", "bad_json"}

OnePuxFiles ==
    {[kind |-> k, doc |-> PyNone] : k \in FailureKinds}
    \cup {[kind |-> "ok", doc |-> d] : d \in Documents}

-----------------------------------------------------------------------------
(* extract_export_data, src/main.py 16-34 *)

\* lines 29-30 and 34 without the raise: an empty document stands in
extract_export_data_Lenient(file) ==
    IF file.kind = "ok" THEN file.doc
    ELSE IF file.kind \in {"missing", "not_a_zip"} THEN Raised
    ELSE EmptyDict

extract_export_data(file) ==
    IF file.kind = "ok" THEN file.doc ELSE Raised

\* the exception extract_export_data raises
ExportError(file) ==
    CASE file.kind = "missing"        -> "FileNotFoundError"
      [] file.kind = "not_a_zip"      -> "BadZipFile"
      [] file.kind = "no_export_data" -> "ValueError"
      [] file.kind = "bad_json"       -> "JSONDecodeError"

-----------------------------------------------------------------------------
(* convert_1pux_to_csv and main, src/main.py 266-332 *)

\* what the file at output_path held before the run
OldLine == [kind |-> "old", cells |-> <<>>]

\* line 290
fieldnames == <<"Title", "URL", "Username", "Password", "Notes", "OTPAuth">>

HeaderLine == [kind |-> "header", cells |-> fieldnames]

\* the text csv.DictWriter writes for one value
CsvCell(v) == IF v.t = "none" THEN "" ELSE PyStr(v)

CsvLine(r) ==
    [kind |-> "row",
     cells |-> <<CsvCell(r.Title), CsvCell(r.URL), CsvCell(r.Username),
                 CsvCell(r.Password), CsvCell(r.Notes), CsvCell(r.OTPAuth)>>]

\* line 282 without the test: no item is left out
IsSkipped_Never(flag, state) == FALSE

\* line 282: the item is left out
IsSkipped(flag, state) == ~flag /\ PyEqStr(state, "archived")

\* line 286 as csv_rows.insert(0, csv_row)
AppendRow_Front(rows, csv_row) == <<csv_row>> \o rows

\* line 286
AppendRow(rows, csv_row) == Append(rows, csv_row)

\* the lists the three loops run over
Accounts == Iter(Get(data, "accounts", EmptyList))

Vaults == Iter(Get(Accounts.l[ai], "vaults", EmptyList))

VaultItems == Iter(Get(Vaults.l[vi], "items", EmptyList))

Raise(e) ==
    /\ exc' = e
    /\ pc' = "except"

InitRun ==
    /\ IdleItem /\ IdleFormat
    /\ one_pux \in OnePuxFiles
    /\ include_archived \in BOOLEAN
    /\ pc = "start"
    /\ data = Pending
    /\ ai = 0 /\ vi = 0 /\ ii = 0
    /\ csv_rows = <<>>
    /\ exc = "none"
    /\ out_file = <<OldLine>>
    /\ stdout = <<>>
    /\ stderr = <<>>
    /\ exit_code = Pending

\* lines 269-273
LoadData ==
    /\ pc = "start"
    /\ IF extract_export_data(one_pux) = Raised
       THEN Raise(ExportError(one_pux)) /\ UNCHANGED data
       ELSE IF Iter(Get(extract_export_data(one_pux), "accounts", EmptyList)) = Raised
            THEN Raise("AttributeError/TypeError") /\ data' = extract_export_data(one_pux)
       ELSE data' = extract_export_data(one_pux) /\ pc' = "for_account" /\ UNCHANGED exc
    /\ UNCHANGED <<one_pux, include_archived, ai, vi, ii, csv_rows,
                   out_file, stdout, stderr, exit_code, itemVars, formatVars>>

\* lines 275-276: the outer loop takes its next account, or ends
ForAccount ==
    /\ pc = "for_account"
    /\ IF ai < Len(Accounts.l)
       THEN IF Iter(Get(Accounts.l[ai + 1], "vaults", EmptyList)) = Raised
            THEN Raise("AttributeError/TypeError") /\ UNCHANGED <<ai, vi>>
            ELSE ai' = ai + 1 /\ vi' = 0 /\ pc' = "for_vault" /\ UNCHANGED exc
       ELSE pc' = "write" /\ UNCHANGED <<ai, vi, exc>>
    /\ UNCHANGED <<one_pux, include_archived, data, ii, csv_rows,
                   out_file, stdout, stderr, exit_code, itemVars, formatVars>>

\* lines 277-278: the middle loop takes its next vault, or ends
ForVault ==
    /\ pc = "for_vault"
    /\ IF vi < Len(Vaults.l)
       THEN IF Iter(Get(Vaults.l[vi + 1], "items", EmptyList)) = Raised
            THEN Raise("AttributeError/TypeError") /\ UNCHANGED <<vi, ii>>
            ELSE vi' = vi + 1 /\ ii' = 0 /\ pc' = "for_item" /\ UNCHANGED exc
       ELSE pc' = "for_account" /\ UNCHANGED <<vi, ii, exc>>
    /\ UNCHANGED <<one_pux, include_archived, data, ai, csv_rows,
                   out_file, stdout, stderr, exit_code, itemVars, formatVars>>

\* lines 281-286, for the item the inner loop took
ProcessItem(it, state, csv_row) ==
    IF state = Raised
    THEN Raise("AttributeError/TypeError") /\ UNCHANGED <<ii, csv_rows>>
    ELSE IF IsSkipped(include_archived, state)
         THEN ii' = ii + 1 /\ UNCHANGED <<csv_rows, pc, exc>>
    ELSE IF csv_row = Raised
         THEN Raise("AttributeError/TypeError") /\ UNCHANGED <<ii, csv_rows>>
    ELSE /\ csv_rows' = AppendRow(csv_rows, csv_row)
         /\ ii' = ii + 1
         /\ UNCHANGED <<pc, exc>>

\* lines 279-286: the inner loop takes its next item, or ends
ForItem ==
    /\ pc = "for_item"
    /\ IF ii < Len(VaultItems.l)
       THEN ProcessItem(VaultItems.l[ii + 1],
                        Get(VaultItems.l[ii + 1], "state", Str("active")),
                        convert_item_to_csv_row(VaultItems.l[ii + 1]))
       ELSE pc' = "for_vault" /\ UNCHANGED <<ii, csv_rows, exc>>
    /\ UNCHANGED <<one_pux, include_archived, data, ai, vi,
                   out_file, stdout, stderr, exit_code, itemVars, formatVars>>

\* line 289: open(output_path, 'w') truncates the file, or raises OSError
OpenOutput ==
    /\ pc = "write"
    /\ \E writable \in BOOLEAN :
          IF writable
          THEN out_file' = <<>> /\ pc' = "header" /\ UNCHANGED exc
          ELSE Raise("OSError") /\ UNCHANGED out_file
    /\ UNCHANGED <<one_pux, include_archived, data, ai, vi, ii, csv_rows,
                   stdout, stderr, exit_code, itemVars, formatVars>>

\* lines 290-292
WriteHeader ==
    /\ pc = "header"
    /\ out_file' = Append(out_file, HeaderLine)
    /\ pc' = "rows"
    /\ UNCHANGED <<one_pux, include_archived, data, ai, vi, ii, csv_rows,
                   exc, stdout, stderr, exit_code, itemVars, formatVars>>

\* line 293
WriteRows ==
    /\ pc = "rows"
    /\ out_file' = out_file \o [i \in 1..Len(csv_rows) |-> CsvLine(csv_rows[i])]
    /\ pc' = "report"
    /\ UNCHANGED <<one_pux, include_archived, data, ai, vi, ii, csv_rows,
                   exc, stdout, stderr, exit_code, itemVars, formatVars>>

\* lines 295 and 332
Report ==
    /\ pc = "report"
    /\ stdout' = Append(stdout, [converted |-> Len(csv_rows)])
    /\ exit_code' = Num(0)
    /\ pc' = "done"
    /\ UNCHANGED <<one_pux, include_archived, data, ai, vi, ii, csv_rows,
                   exc, out_file, stderr, itemVars, formatVars>>

\* lines 328-330
HandleException ==
    /\ pc = "except"
    /\ stderr' = Append(stderr, exc)
    /\ exit_code' = Num(1)
    /\ pc' = "done"
    /\ UNCHANGED <<one_pux, include_archived, data, ai, vi, ii, csv_rows,
                   exc, out_file, stdout, itemVars, formatVars>>

Init == InitRun

Next ==
    \/ LoadData
    \/ ForAccount
    \/ ForVault
    \/ ForItem
    \/ OpenOutput
    \/ WriteHeader
    \/ WriteRows
    \/ Report
    \/ HandleException

Spec == Init /\ [][Next]_vars

-----------------------------------------------------------------------------
(* What a run is expected to write, stated from the document alone *)

\* the sequences seqs[i], seqs[i+1], ... one after the other
RECURSIVE Flatten(_, _)
Flatten(seqs, i) ==
    IF i > Len(seqs) THEN <<>> ELSE seqs[i] \o Flatten(seqs, i + 1)

ListAt(v, k) == Get(v, k, EmptyList).l

ItemsOfAccount(account) ==
    Flatten([v \in 1..Len(ListAt(account, "vaults")) |->
                ListAt(ListAt(account, "vaults")[v], "items")], 1)

\* every item of the document: accounts, then vaults, then items, in source order
ItemsOfDocument(doc) ==
    Flatten([a \in 1..Len(ListAt(doc, "accounts")) |->
                ItemsOfAccount(ListAt(doc, "accounts")[a])], 1)

IsArchived(it) == PyEqStr(Get(it, "state", Str("active")), "archived")

Included(it) == include_archived \/ ~IsArchived(it)

\* the items that are not filtered out, in source order
SourceOrderItems == SelectSeq(ItemsOfDocument(one_pux.doc), Included)

\* one row per remaining item (Raised where converting the item raises)
ExpectedRows ==
    [i \in 1..Len(SourceOrderItems) |-> convert_item_to_csv_row(SourceOrderItems[i])]

LinesOf(rows) == [i \in 1..Len(rows) |-> CsvLine(rows[i])]

IsPrefix(s, t) == Len(s) <= Len(t) /\ s = SubSeq(t, 1, Len(s))

Succeeded == pc = "done" /\ exit_code = Num(0)

-----------------------------------------------------------------------------
(* Claims about a run (Spec) *)

\* C1: a step adds a row only for the item the inner loop is taking, and only
\* if include_archived is set or the item's state (default 'active') is not
\* 'archived'; so no archived item yields a row when include_archived is false.
C1_ArchivedFilter ==
    [][csv_rows' # csv_rows =>
          /\ pc = "for_item"
          /\ ii < Len(VaultItems.l)
          /\ include_archived \/ ~IsArchived(VaultItems.l[ii + 1])
          /\ Len(csv_rows') = Len(csv_rows) + 1]_vars

\* an archived item has just been passed over with include_archived false
C1_Witness ==
    /\ pc = "for_item"
    /\ ii >= 1
    /\ ~include_archived
    /\ IsArchived(VaultItems.l[ii])
    /\ Len(csv_rows) >= 1

\* C2: the rows are those of the items that are not filtered out, one row per
\* item, in source order (accounts, then vaults, then items): csv_rows is at
\* every moment a prefix of that sequence, is all of it once the loops have
\* ended, and is what a successful run writes after the header.
C2_RowsInSourceOrder ==
    one_pux.kind = "ok" =>
        LET expected == ExpectedRows
        IN  /\ IsPrefix(csv_rows, expected)
            /\ Len(csv_rows) <= Len(ItemsOfDocument(one_pux.doc))
            /\ (pc \in {"write", "header", "rows", "report"} \/ Succeeded)
                  => csv_rows = expected
            /\ (pc = "report" \/ Succeeded)
                  => out_file = <<HeaderLine>> \o LinesOf(expected)

\* a successful run over two accounts that wrote two different rows
C2_Witness ==
    /\ Succeeded
    /\ Len(Accounts.l) >= 3
    /\ Len(out_file) = 3
    /\ out_file[2] # out_file[3]

\* C7: within a parseable document no item is fatal: the run ends with exit
\* code 0 and the row of every item that converts is written.
C7_NoItemLevelFatal ==
    (one_pux.kind = "ok" /\ pc = "done" /\ exc # "OSError") =>
        /\ exit_code = Num(0)
        /\ \A i \in 1..Len(ExpectedRows) :
              ExpectedRows[i] # Raised =>
                  \E j \in 1..Len(out_file) : out_file[j] = CsvLine(ExpectedRows[i])

\* C8: a run whose input is missing, is no archive, has no export.data or does
\* not parse never touches the output file, computes no row, prints exactly one
\* error message and returns 1; the output file is opened only after every row
\* has been computed, and 0 is returned only after header and rows are written.
C8_FatalBeforeSink ==
    /\ one_pux.kind \in FailureKinds =>
          /\ out_file = <<OldLine>>
          /\ csv_rows = <<>>
          /\ stdout = <<>>
          /\ exit_code # Num(0)
          /\ pc = "done" => (exit_code = Num(1) /\ stderr = <<ExportError(one_pux)>>)
          /\ pc # "done" => stderr = <<>>
    /\ (one_pux.kind = "ok" /\ out_file # <<OldLine>>) =>
          /\ pc \in {"header", "rows", "report", "done"}
          /\ csv_rows = ExpectedRows
    /\ (one_pux.kind = "ok" /\ exit_code = Num(0)) =>
          /\ pc = "done"
          /\ stderr = <<>>
          /\ out_file = <<HeaderLine>> \o LinesOf(ExpectedRows)

\* a run on an archive whose export.data does not parse has ended
C8_Witness ==
    /\ pc = "done"
    /\ one_pux.kind = "bad_json"
    /\ exit_code = Num(1)
    /\ out_file = <<OldLine>>

-----------------------------------------------------------------------------
(* Claims about one item (SpecItem) *)

Converted == row # Pending /\ row # Raised

ItemOverview == Get(item, "overview", EmptyDict)

ItemDetails == Get(item, "details", EmptyDict)

\* every field of every section of the item, in order
ItemFields ==
    Flatten([i \in 1..Len(ListAt(ItemDetails, "sections")) |->
                ListAt(ListAt(ItemDetails, "sections")[i], "fields")], 1)

IsTotpField(f) ==
    IsStr(Get(f, "id", Str(""))) /\ StartsWith(Get(f, "id", Str("")).s, TotpPrefix)

IsNoTotpField(f) == ~IsTotpField(f)

\* C3: no empty block leaves a trace in the notes: they neither begin nor end
\* with the delimiter, hold no two delimiters in a row, and are empty when no
\* block has content (notesPlain missing or all whitespace, nothing else).
NoBlockTriggered ==
    /\ Strip(Get(ItemDetails, "notesPlain", Str("")).s) = ""
    /\ ListAt(ItemOverview, "tags") = <<>>
    /\ ListAt(ItemDetails, "loginFields") = <<>>
    /\ ListAt(ItemDetails, "sections") = <<>>
    /\ Len(ListAt(ItemOverview, "urls")) <= 1
    /\ ListAt(ItemDetails, "passwordHistory") = <<>>

C3_NoStrayDelimiter ==
    Converted =>
        /\ ~StartsWith(row.Notes.s, Delimiter)
        /\ ~EndsWith(row.Notes.s, Delimiter)
        /\ ~Contains(row.Notes.s, Delimiter \o Delimiter)
        /\ NoBlockTriggered => row.Notes.s = ""

\* the seed a TOTP_ field holds: the totp entry of a dict, or the string itself
SeedOf(f) ==
    LET value == Get(f, "value", EmptyDict)
    IN  IF IsDict(value) THEN Get(value, "totp", Str("")).s
        ELSE IF IsStr(value) THEN value.s
        ELSE ""

TotpSeeds ==
    [i \in 1..Len(SelectSeq(ItemFields, IsTotpField)) |->
        SeedOf(SelectSeq(ItemFields, IsTotpField)[i])]

IsNonEmpty(s) == s # ""

FirstNonEmpty(seeds) ==
    IF SelectSeq(seeds, IsNonEmpty) = <<>> THEN "" ELSE SelectSeq(seeds, IsNonEmpty)[1]

\* C4: the OTPAuth column is the first non-empty seed among the TOTP_ fields, in
\* section order then field order; a TOTP_ field with an empty value is passed over.
C4_FirstNonEmptySeed ==
    Converted => row.OTPAuth = Str(FirstNonEmpty(TotpSeeds))

\* the strings a field shows: its title and what its value holds
FieldStrings(f) ==
    {Get(f, "title", Str("")).s}
    \cup (IF IsStr(Get(f, "value", Str(""))) THEN {Get(f, "value", Str("")).s} ELSE {})
    \cup (IF IsDict(Get(f, "value", Str("")))
          THEN {PyStr(Get(f, "value", Str("")).d[k]) : k \in DOMAIN Get(f, "value", Str("")).d}
          ELSE {})

SectionWithoutTotp(section) ==
    Dict([k \in DOMAIN section.d |->
            IF k = "fields" THEN List(SelectSeq(section.d[k].l, IsNoTotpField))
            ELSE section.d[k]])

\* the details with every TOTP_ field taken out of every section
DetailsWithoutTotp(details) ==
    Dict([k \in DOMAIN details.d |->
            IF k = "sections"
            THEN List([i \in 1..Len(details.d[k].l) |-> SectionWithoutTotp(details.d[k].l[i])])
            ELSE details.d[k]])

\* C5: no TOTP_ field contributes to the notes: the notes are those of the item
\* with its TOTP_ fields taken out, and hold neither the title nor the value of
\* any TOTP_ field; an item whose fields are all TOTP_ fields has no extra-info
\* block, and one TOTP_ field {totp: S} alone gives OTPAuth = S.
C5_OtpNeverInNotes ==
    Converted =>
        /\ row.Notes = build_notes(DetailsWithoutTotp(ItemDetails), ItemOverview)
        /\ \A i \in 1..Len(ItemFields) :
              IsTotpField(ItemFields[i]) =>
                  \A s \in FieldStrings(ItemFields[i]) \ {""} : ~Contains(row.Notes.s, s)
        /\ (\A i \in 1..Len(ItemFields) : IsTotpField(ItemFields[i]))
              => ~Contains(row.Notes.s, ExtraInfoHeader)
        /\ (Len(ItemFields) = 1 /\ IsTotpField(ItemFields[1])
              /\ IsDict(Get(ItemFields[1], "value", Str(""))))
              => row.OTPAuth = Get(Get(ItemFields[1], "value", Str("")), "totp", Str(""))

\* an item with a seed in a TOTP_ field and another field that is in the notes
C5_Witness ==
    /\ Converted
    /\ row.OTPAuth = Str("SEED1")
    /\ Contains(row.Notes.s, ExtraInfoHeader)
    /\ Contains(row.Notes.s, "PIN: 1234")

\* the line of the notes for one secondary URL
UrlLineOf(u) ==
    "  - " \o (IF Truthy(Get(u, "label", Str("")))
               THEN Get(u, "label", Str("")).s \o ": " \o Get(u, "url", Str("")).s
               ELSE Get(u, "url", Str("")).s)

\* C10: every entry of overview.urls with a non-empty url is in the row: the
\* first as the URL column, every later one as a line of the notes.
C10_NoUrlLost ==
    Converted =>
        \A i \in 1..Len(ListAt(ItemOverview, "urls")) :
            Truthy(Get(ListAt(ItemOverview, "urls")[i], "url", Str(""))) =>
                IF i = 1
                THEN row.URL = Get(ListAt(ItemOverview, "urls")[1], "url", Str(""))
                ELSE Contains(row.Notes.s, UrlLineOf(ListAt(ItemOverview, "urls")[i]))

====
